---- MODULE Spec2Model ----
(***************************************************************************)
(* Model of the finding-generation and scoring engine of                   *)
(* ComplianceDocEvaluator (analysis.js): chunkByChar, parseGeminiJson,     *)
(* heuristicsAU, ensureMinimumAU, dedupeRecommendations, severityRank,     *)
(* aggregate, detectSoftFloors and the analyzeText driver.                 *)
(*                                                                         *)
(* JavaScript strings are TLA+ strings (TLC evaluates Len, SubSeq and \o   *)
(* on them).  A TLA+ string literal cannot hold a backtick, so the model   *)
(* writes the character ~ wherever the program text has a backtick.        *)
(***************************************************************************)
EXTENDS Integers, Sequences, FiniteSets, TLC

VARIABLES
    rawText,    \* the document text handed to analyzeText
    size,       \* chunk size (config.maxTokensPerChunk)
    overlap,    \* chunk overlap (config.overlapChars)
    chunks,     \* the chunks of the indexed text
    pc,         \* where analyzeText (or the function under check) stands
    i,          \* the loop index of analyzeText (0-based)
    text,       \* the response text of the Model Gateway, a JavaScript value
    findings,   \* the accumulated findings
    recovered,  \* history: the findings as the chunk loop left them (line 41)
    log,        \* history: the gateway calls issued and settled and the
                \* findings appended, in the order in which they happened
    mode,       \* which branch of lines 43-47 ran: "fallback" or "gapfill"
    error,      \* "" or the function in which a TypeError was raised
    report      \* the report returned by analyzeText

vars == <<rawText, size, overlap, chunks, pc, i, text, findings, recovered, log, mode, error,
          report>>

(***************************************************************************)
(* Bounds of the model.                                                    *)
(***************************************************************************)
\* longest free-form text (over the alphabet {a, newline}) fed to chunkByChar
MaxTextLen == 4
\* most lines of the uniform multi-line texts fed to chunkByChar
MaxLines == 11
\* largest chunk size tried for chunkByChar
MaxSize == 10
\* most fragments concatenated into a response text fed to parseGeminiJson
MaxFrags == 4

(***************************************************************************)
(* JavaScript string primitives.                                           *)
(***************************************************************************)
\* F applied to the value v: a value computed once and used several times
With(v, F(_)) == F(v)

Min(a, b) == IF a < b THEN a ELSE b

Max(a, b) == IF a > b THEN a ELSE b

\* s.charAt(k) with k counted from 1
CharAt(s, k) == SubSeq(s, k, k)

\* s.slice(a, b) for 0 <= a, 0 <= b (0-based, end exclusive, clamped)
Slice(s, a, b) == SubSeq(s, Min(a, Len(s)) + 1, Min(b, Len(s)))

\* s.startsWith(p, k - 1): p occurs in s at position k (from 1)
StartsAt(s, p, k) == k + Len(p) - 1 <= Len(s) /\ SubSeq(s, k, k + Len(p) - 1) = p

\* s.includes(p)
Includes(s, p) == \E k \in 1..(Len(s) - Len(p) + 1) : SubSeq(s, k, k + Len(p) - 1) = p

RECURSIVE Repeat(_, _)
\* s.repeat(n), by halving
Repeat(s, n) == IF n = 0 THEN ""
                ELSE IF n = 1 THEN s
                ELSE Repeat(s, n \div 2) \o Repeat(s, n - (n \div 2))

RECURSIVE ConcatRange(_, _, _)
\* parts[a] \o ... \o parts[b], by halving
ConcatRange(parts, a, b) ==
    IF a > b THEN ""
    ELSE IF a = b THEN parts[a]
    ELSE LET m == (a + b) \div 2
         IN  ConcatRange(parts, a, m) \o ConcatRange(parts, m + 1, b)

\* parts.join("")
ConcatAll(parts) == ConcatRange(parts, 1, Len(parts))

Digits == "0123456789"

RECURSIVE DecStr(_)
\* String(n) for a natural number n: its decimal digits
DecStr(n) == IF n < 10 THEN CharAt(Digits, n + 1)
             ELSE DecStr(n \div 10) \o CharAt(Digits, (n % 10) + 1)

\* the members of a finite set of integers in increasing order
Ascending(S) ==
    LET ranked == {<<Cardinality({m \in S : m < k}), k>> : k \in S}
    IN  [j \in 1..Cardinality(S) |-> (CHOOSE p \in ranked : p[1] = j - 1)[2]]

\* s.split('\n'): the text between consecutive line breaks; never empty,
\* "" splits to <<"">>
SplitLines(s) ==
    LET nl == Ascending({k \in 1..Len(s) : CharAt(s, k) = "\n"})
        n  == Len(nl) + 1
    IN  [j \in 1..n |->
            SubSeq(s, IF j = 1 THEN 1 ELSE nl[j - 1] + 1,
                      IF j = n THEN Len(s) ELSE nl[j] - 1)]

\* lines.join('\n')
JoinLines(ls) ==
    ConcatAll([j \in 1..Len(ls) |-> IF j = 1 THEN ls[j] ELSE "\n" \o ls[j]])

UpperAlpha == "ABCDEFGHIJKLMNOPQRSTUVWXYZ"

LowerAlpha == "abcdefghijklmnopqrstuvwxyz"

\* the lower-case form of each upper-case letter
LowerOf == [c \in {CharAt(UpperAlpha, k) : k \in 1..26} |->
               CharAt(LowerAlpha, CHOOSE k \in 1..26 : CharAt(UpperAlpha, k) = c)]

\* s.toLowerCase() (ASCII)
Lower(s) ==
    ConcatAll([k \in 1..Len(s) |->
                  LET c == CharAt(s, k) IN IF c \in DOMAIN LowerOf THEN LowerOf[c] ELSE c])

(***************************************************************************)
(* JavaScript values: a tagged tuple, the tag fixing the shape of the rest.*)
(* A number keeps its JSON lexeme; an object is a function from its keys.  *)
(***************************************************************************)
JUndef == <<"undefined">>

JNull == <<"null">>

JStr(s) == <<"string", s>>

JNum(lexeme) == <<"number", lexeme>>

JBool(b) == <<"boolean", b>>

JArr(items) == <<"array", items>>

JObj(fields) == <<"object", fields>>

TypeTag(v) == v[1]

\* typeof v === "string"
IsString(v) == TypeTag(v) = "string"

\* Array.isArray(v)
IsArray(v) == TypeTag(v) = "array"

\* v is null or undefined: reading a property of v raises a TypeError
IsNullish(v) == TypeTag(v) \in {"null", "undefined"}

\* the boolean value of v: false for undefined, null, "", 0 and false
Truthy(v) ==
    CASE TypeTag(v) = "undefined" -> FALSE
      [] TypeTag(v) = "null"      -> FALSE
      [] TypeTag(v) = "string"    -> v[2] # ""
      [] TypeTag(v) = "number"    -> v[2] \notin {"0", "-0"}
      [] TypeTag(v) = "boolean"   -> v[2]
      [] OTHER                    -> TRUE

\* a || b
OrElse(a, b) == IF Truthy(a) THEN a ELSE b

\* v.k for a v that is not null or undefined (own data properties only)
Prop(v, k) ==
    IF TypeTag(v) = "object" /\ k \in DOMAIN v[2] THEN v[2][k] ELSE JUndef

(***************************************************************************)
(* chunkByChar (Indexer and Chunker).                                      *)
(***************************************************************************)
\* the marker put in front of line n (n from 1)
LineMarker(n) == "[LINE " \o DecStr(n) \o "]"

\* lines.map((line, index) => `[LINE ${index + 1}] ${line}`).join('\n')
IndexedText(raw) ==
    LET lines == SplitLines(raw)
    IN  JoinLines([n \in 1..Len(lines) |-> LineMarker(n) \o " " \o lines[n]])

\* the while loop of lines 324-326: it runs for i = 0, step, 2*step, ...
\* while i < length, pushing indexedText.slice(i, i + size)
Windows(indexed, sz, step) ==
    [j \in 1..((Len(indexed) + step - 1) \div step) |->
        Slice(indexed, (j - 1) * step, (j - 1) * step + sz)]

\* a step that forgets the overlap
ChunkStepNoOverlap(sz, ov) == Max(1, sz)

\* const step = Math.max(1, size - overlap)
ChunkStep(sz, ov) == Max(1, sz - ov)

chunkByChar(raw, sz, ov) ==
    LET indexed == IndexedText(raw)
        out     == Windows(indexed, sz, ChunkStep(sz, ov))
    IN  IF Len(out) > 0 THEN out ELSE <<indexed>>

(***************************************************************************)
(* JSON.parse: a recursive-descent reader of the JSON grammar.  A reader   *)
(* returns [ok, val, next]: whether a value starts at position k, the      *)
(* value, and the position after it.  ok = FALSE is JSON.parse raising a   *)
(* SyntaxError.  Of the string escapes, \u is not read (no modelled text   *)
(* holds a backslash).                                                     *)
(***************************************************************************)
NoParse == [ok |-> FALSE, val |-> JUndef, next |-> 0]

Parsed(v, n) == [ok |-> TRUE, val |-> v, next |-> n]

\* the white space JSON allows between tokens
JsonWs == {" ", "\t", "\n", "\r"}

DigitChars == {"0", "1", "2", "3", "4", "5", "6", "7", "8", "9"}

\* characters that may not appear raw inside a JSON string
JsonControl == {"\n", "\r", "\t", "\f"}

RECURSIVE SkipWs(_, _)
SkipWs(s, k) == IF k <= Len(s) /\ CharAt(s, k) \in JsonWs THEN SkipWs(s, k + 1) ELSE k

RECURSIVE DigitsEnd(_, _)
\* the position after the run of digits that starts at k
DigitsEnd(s, k) == IF k <= Len(s) /\ CharAt(s, k) \in DigitChars THEN DigitsEnd(s, k + 1) ELSE k

\* number: -? (0 | [1-9][0-9]*) (\.[0-9]+)? ([eE][+-]?[0-9]+)?
ParseNumber(s, k) ==
    LET k1   == IF StartsAt(s, "-", k) THEN k + 1 ELSE k
        k2   == IF StartsAt(s, "0", k1) THEN k1 + 1 ELSE DigitsEnd(s, k1)
        f    == IF StartsAt(s, ".", k2) THEN DigitsEnd(s, k2 + 1) ELSE k2
        fbad == StartsAt(s, ".", k2) /\ f = k2 + 1
        e0   == IF StartsAt(s, "e", f) \/ StartsAt(s, "E", f) THEN f + 1 ELSE f
        e1   == IF e0 > f /\ (StartsAt(s, "+", e0) \/ StartsAt(s, "-", e0)) THEN e0 + 1 ELSE e0
        e2   == IF e0 > f THEN DigitsEnd(s, e1) ELSE f
        ebad == e0 > f /\ e2 = e1
    IN  IF k2 = k1 \/ fbad \/ ebad THEN NoParse
        ELSE Parsed(JNum(SubSeq(s, k, e2 - 1)), e2)

\* the character an escape \c stands for, "" when c starts no simple escape
Unescape(c) ==
    CASE c = "\"" -> "\""
      [] c = "\\" -> "\\"
      [] c = "/"  -> "/"
      [] c = "n"  -> "\n"
      [] c = "r"  -> "\r"
      [] c = "t"  -> "\t"
      [] c = "f"  -> "\f"
      [] OTHER    -> ""

RECURSIVE StringBody(_, _, _)
\* the rest of a string whose opening quote was read, acc its content so
\* far: plain characters up to the next quote, backslash or control character
StringBody(s, k, acc) ==
    LET stops == {j \in k..Len(s) : CharAt(s, j) \in JsonControl \cup {"\"", "\\"}}
    IN  IF stops = {} THEN NoParse
        ELSE LET q == CHOOSE j \in stops : \A m \in stops : j <= m
                 c == CharAt(s, q)
                 a2 == acc \o SubSeq(s, k, q - 1)
             IN  IF c = "\"" THEN Parsed(JStr(a2), q + 1)
                 ELSE IF c \in JsonControl THEN NoParse
                 ELSE IF q + 1 > Len(s) \/ Unescape(CharAt(s, q + 1)) = "" THEN NoParse
                 ELSE StringBody(s, q + 2, a2 \o Unescape(CharAt(s, q + 1)))

ParseString(s, k) == IF StartsAt(s, "\"", k) THEN StringBody(s, k + 1, "") ELSE NoParse

RECURSIVE ParseValue(_, _), ArrayRest(_, _, _), ObjectRest(_, _, _)

\* the value that starts at position k
ParseValue(s, k) ==
    IF k > Len(s) THEN NoParse
    ELSE LET c == CharAt(s, k)
         IN  CASE c = "[" ->
                    LET k1 == SkipWs(s, k + 1)
                    IN  IF StartsAt(s, "]", k1) THEN Parsed(JArr(<<>>), k1 + 1)
                        ELSE ArrayRest(s, k1, <<>>)
               [] c = "{" ->
                    LET k1 == SkipWs(s, k + 1)
                    IN  IF StartsAt(s, "}", k1) THEN Parsed(JObj(<<>>), k1 + 1)
                        ELSE ObjectRest(s, k1, <<>>)
               [] c = "\"" -> ParseString(s, k)
               [] c = "t" -> IF StartsAt(s, "true", k) THEN Parsed(JBool(TRUE), k + 4) ELSE NoParse
               [] c = "f" -> IF StartsAt(s, "false", k) THEN Parsed(JBool(FALSE), k + 5) ELSE NoParse
               [] c = "n" -> IF StartsAt(s, "null", k) THEN Parsed(JNull, k + 4) ELSE NoParse
               [] OTHER -> ParseNumber(s, k)

\* the elements of an array from position k on, items read so far
ArrayRest(s, k, items) ==
    With(ParseValue(s, k), LAMBDA v :
        IF ~v.ok THEN NoParse
        ELSE With(SkipWs(s, v.next), LAMBDA k1 :
                IF StartsAt(s, "]", k1) THEN Parsed(JArr(Append(items, v.val)), k1 + 1)
                ELSE IF StartsAt(s, ",", k1)
                     THEN ArrayRest(s, SkipWs(s, k1 + 1), Append(items, v.val))
                ELSE NoParse))

\* the members of an object from position k on; a repeated key keeps its
\* last value
ObjectRest(s, k, fields) ==
    With(ParseString(s, k), LAMBDA key :
        IF ~key.ok \/ ~StartsAt(s, ":", SkipWs(s, key.next)) THEN NoParse
        ELSE With(ParseValue(s, SkipWs(s, SkipWs(s, key.next) + 1)), LAMBDA v :
                IF ~v.ok THEN NoParse
                ELSE With(SkipWs(s, v.next), LAMBDA k2 :
                        IF StartsAt(s, "}", k2)
                        THEN Parsed(JObj((key.val[2] :> v.val) @@ fields), k2 + 1)
                        ELSE IF StartsAt(s, ",", k2)
                             THEN ObjectRest(s, SkipWs(s, k2 + 1),
                                             (key.val[2] :> v.val) @@ fields)
                        ELSE NoParse)))

\* JSON.parse(s): ok = FALSE stands for the SyntaxError it raises
JSONparse(s) ==
    With(ParseValue(s, SkipWs(s, 1)), LAMBDA v :
        IF v.ok /\ SkipWs(s, v.next) = Len(s) + 1 THEN v ELSE NoParse)

(***************************************************************************)
(* parseGeminiJson (Response Recoverer).                                   *)
(***************************************************************************)
\* the characters \s matches among those of the modelled texts
RegexWs == {" ", "\t", "\n", "\r", "\f"}

Fence == "~~~"

NoMatch == [found |-> FALSE, body |-> ""]

\* the least member of a non-empty finite set of integers
Least(S) == CHOOSE k \in S : \A m \in S : k <= m

\* the greatest member of a non-empty finite set of integers
Greatest(S) == CHOOSE k \in S : \A m \in S : k >= m

\* text.match(/```(?:json)?\s*([\s\S]*?)```/i): the match that starts
\* leftmost; after the opening fence the optional tag and the white space are
\* taken greedily, the body lazily up to the next fence.  body is group 1.
FenceMatch(s) ==
    LET fences == {p \in 1..(Len(s) - 2) : SubSeq(s, p, p + 2) = Fence}
        AfterTag(p) == IF p + 6 <= Len(s) /\ Lower(SubSeq(s, p + 3, p + 6)) = "json"
                       THEN p + 7 ELSE p + 3
        BodyStart(p) ==
            LET t == AfterTag(p)
                nonws == {k \in t..Len(s) : CharAt(s, k) \notin RegexWs}
            IN  IF nonws = {} THEN Len(s) + 1 ELSE Least(nonws)
        Closing(p) == {q \in fences : q >= BodyStart(p)}
        opens == {p \in fences : Closing(p) # {}}
    IN  IF opens = {} THEN NoMatch
        ELSE LET p == Least(opens)
             IN  [found |-> TRUE, body |-> SubSeq(s, BodyStart(p), Least(Closing(p)) - 1)]

\* text.match(/\[[\s\S]*\]/): from the first "[" to the last "]" after it;
\* body is the whole match
ArrayLikeMatch(s) ==
    LET opensq  == {k \in 1..Len(s) : CharAt(s, k) = "["}
        closesq == {k \in 1..Len(s) : CharAt(s, k) = "]"}
    IN  IF opensq = {} \/ closesq = {} \/ Greatest(closesq) < Least(opensq) THEN NoMatch
        ELSE [found |-> TRUE, body |-> SubSeq(s, Least(opensq), Greatest(closesq))]

\* how a statement of parseGeminiJson ends: it returns value, it raises an
\* error, or control falls through to the next statement
Returned(v) == [returned |-> TRUE, threw |-> FALSE, value |-> v]

FellThrough == [returned |-> FALSE, threw |-> FALSE, value |-> <<>>]

Raised == [returned |-> FALSE, threw |-> TRUE, value |-> <<>>]

\* the same statement without its catch: the SyntaxError escapes
TryParseArrayNoCatch(src) ==
    With(JSONparse(src), LAMBDA j :
        IF j.ok THEN Returned(IF IsArray(j.val) THEN j.val[2] ELSE <<>>)
        ELSE Raised)

\* try { const j = JSON.parse(src); return Array.isArray(j) ? j : []; } catch {}
TryParseArray(src) ==
    With(JSONparse(src), LAMBDA j :
        IF j.ok THEN Returned(IF IsArray(j.val) THEN j.val[2] ELSE <<>>)
        ELSE FellThrough)

\* a recovery that works on the match m of a pattern, when there is one
TryMatch(m) == IF m.found THEN TryParseArray(m.body) ELSE FellThrough

\* a statement that returned or raised ends the function
Ended(t) == t.returned \/ t.threw

\* the bracketed substring tried before the fenced block
parseGeminiJsonBracketFirst(t) ==
    IF ~Truthy(t) \/ ~IsString(t) THEN Returned(<<>>)
    ELSE With(TryParseArray(t[2]), LAMBDA t1 :
           IF Ended(t1) THEN t1
           ELSE With(TryMatch(ArrayLikeMatch(t[2])), LAMBDA t3 :
                  IF Ended(t3) THEN t3
                  ELSE With(TryMatch(FenceMatch(t[2])), LAMBDA t2 :
                         IF Ended(t2) THEN t2 ELSE Returned(<<>>))))

parseGeminiJson(t) ==
    IF ~Truthy(t) \/ ~IsString(t) THEN Returned(<<>>)
    ELSE With(TryParseArray(t[2]), LAMBDA t1 :
           IF Ended(t1) THEN t1
           ELSE With(TryMatch(FenceMatch(t[2])), LAMBDA t2 :
                  IF Ended(t2) THEN t2
                  ELSE With(TryMatch(ArrayLikeMatch(t[2])), LAMBDA t3 :
                         IF Ended(t3) THEN t3 ELSE Returned(<<>>))))

(***************************************************************************)
(* Regular expressions, as far as the program's patterns use them.  A      *)
(* pattern is a tagged tuple; Ends(r, d, k) is the set of positions at     *)
(* which a match of r that starts at position k of d can end, so that      *)
(* r.test(d) holds when some start has an end.  The patterns carry the i   *)
(* flag and are written in lower case: they are matched against the        *)
(* lower-cased text.                                                       *)
(***************************************************************************)
Lit(p) == <<"lit", p>>

\* r1|r2|...
Alt(rs) == <<"alt", rs>>

\* r1r2...
Cat(rs) == <<"cat", rs>>

\* r?
Opt(r) == <<"opt", r>>

\* .*
AnyStar == <<"anystar">>

\* \s+
WsPlus == <<"ws", 1>>

\* \s*
WsStar == <<"ws", 0>>

\* \d+
DigitPlus == <<"digits">>

\* \b
WordB == <<"wordb">>

\* the characters . does not match
LineTerminators == {"\n", "\r"}

\* \w, on lower-cased text
WordChars == {CharAt(LowerAlpha, k) : k \in 1..26} \cup DigitChars \cup {"_"}

IsWordAt(d, k) == k >= 1 /\ k <= Len(d) /\ CharAt(d, k) \in WordChars

\* the position after the longest run of characters of class from k on
RunEnd(d, k, class) ==
    LET others == {j \in k..Len(d) : CharAt(d, j) \notin class}
    IN  IF others = {} THEN Len(d) + 1 ELSE Least(others)

RECURSIVE Ends(_, _, _), EndsCat(_, _, _, _)

Ends(r, d, k) ==
    CASE r[1] = "lit"     -> IF StartsAt(d, r[2], k) THEN {k + Len(r[2])} ELSE {}
      [] r[1] = "alt"     -> UNION {Ends(r[2][j], d, k) : j \in 1..Len(r[2])}
      [] r[1] = "cat"     -> EndsCat(r[2], 1, d, {k})
      [] r[1] = "opt"     -> {k} \cup Ends(r[2], d, k)
      [] r[1] = "anystar" ->
            LET stops == {j \in k..Len(d) : CharAt(d, j) \in LineTerminators}
            IN  k..(IF stops = {} THEN Len(d) + 1 ELSE Least(stops))
      [] r[1] = "ws"      -> (k + r[2])..RunEnd(d, k, RegexWs)
      [] r[1] = "digits"  -> (k + 1)..RunEnd(d, k, DigitChars)
      [] r[1] = "wordb"   -> IF IsWordAt(d, k - 1) # IsWordAt(d, k) THEN {k} ELSE {}

\* the ends of rs[idx], rs[idx+1], ... matched in a row from a start in from
EndsCat(rs, idx, d, from) ==
    IF idx > Len(rs) \/ from = {} THEN from
    ELSE EndsCat(rs, idx + 1, d, UNION {Ends(rs[idx], d, k) : k \in from})

RECURSIVE Test(_, _)
\* r.test(d) for the lower-cased text d
Test(r, d) ==
    IF r[1] = "lit" THEN Includes(d, r[2])
    ELSE IF r[1] = "alt" THEN \E j \in 1..Len(r[2]) : Test(r[2][j], d)
    ELSE \E k \in 1..(Len(d) + 1) : Ends(r, d, k) # {}

\* an alternation of literals
AnyOf(ps) == Alt([j \in 1..Len(ps) |-> Lit(ps[j])])

(***************************************************************************)
(* mk and heuristicsAU (Heuristic Rule Engine).                            *)
(***************************************************************************)
\* "R-" + Math.random().toString(36).slice(2, 8): the random suffix is left
\* abstract, one identifier standing for all of them
RandomId == JStr("R-rand")

\* the array of strings refs as a JavaScript value
StrArray(refs) == JArr([j \in 1..Len(refs) |-> JStr(refs[j])])

\* mk(theme, title, status, severity, evidence, impact, recommendation,
\*    references, confidence); confidence is kept as its lexeme
mk(theme, title, status, severity, evidence, impact, recommendation, references, confidence) ==
    JObj([id |-> RandomId, theme |-> JStr(theme), title |-> JStr(title),
          status |-> JStr(status), severity |-> JStr(severity),
          evidence |-> JStr(evidence), impact |-> JStr(impact),
          recommendation |-> JStr(recommendation),
          references |-> StrArray(references), confidence |-> JNum(confidence)])

\* if (c) out.push(f)
PushIf(c, f) == IF c THEN <<f>> ELSE <<>>

\* const T = (s) => new RegExp(s, "i").test(text || ""), d the lower-cased text
T(d, r) == Test(r, d)

\* line 73 to 79
RuleApp1(d) ==
    PushIf(~T(d, Cat(<<WordB, Lit("privacy policy"), WordB>>))
           /\ ~T(d, Cat(<<Lit("how we manage"), AnyStar, Lit("personal information")>>)),
        mk("privacy_app", "APP 1 transparency", "undisclosed", "medium",
           "Not found",
           "Lack of clear statement on how personal information is managed (APP 1).",
           "Publish an APP 1-compliant privacy policy covering purpose, types collected, use/disclosure, access/correction, complaints and contact.",
           <<"APP 1">>, "0.6"))

\* line 81: the collection-notice rule fires unless all three phrases occur
App5Fires(d) ==
    ~T(d, Lit("we collect")) \/ ~T(d, Lit("why we collect")) \/ ~T(d, Lit("how to contact"))

\* line 81 to 87
RuleApp5(d) ==
    PushIf(App5Fires(d),
        mk("privacy_app", "APP 5 collection notice", "undisclosed", "high",
           "Details of collection notice not clearly present.",
           "APP 5 notice may be incomplete or absent.",
           "Add an APP 5 notice with purposes, fields, disclosures, cross-border, contact.",
           <<"APP 5">>, "0.7"))

\* line 89 to 95
RuleApp8(d) ==
    PushIf(~T(d, Lit("overseas")) /\ ~T(d, Lit("outside australia")) /\ ~T(d, Lit("cross-border")),
        mk("privacy_app", "APP 8 cross-border disclosures", "undisclosed", "medium",
           "No explicit mention of disclosures overseas.",
           "If using offshore vendors/cloud, APP 8 accountability may apply.",
           "Disclose countries/types of overseas recipients or state none occur.",
           <<"APP 8">>, "0.6"))

\* line 97 to 103
RuleApp11(d) ==
    PushIf(~T(d, Lit("security"))
           \/ ~(T(d, Lit("encryption")) \/ T(d, Lit("mfa")) \/ T(d, Lit("access control"))
                \/ T(d, Lit("backup")) \/ T(d, Lit("patch"))),
        mk("privacy_app", "APP 11 security of personal information", "undisclosed", "high",
           "Security controls not described.",
           "Absence of described measures increases risk.",
           "Document encryption/MFA/least privilege/backups/patch SLAs.",
           <<"APP 11", "ACSC Essential Eight">>, "0.7"))

\* line 105 to 111
RuleApp12(d) ==
    PushIf(~(T(d, Lit("access your information")) \/ T(d, Lit("request access"))),
        mk("privacy_app", "APP 12 access to personal information", "undisclosed", "medium",
           "Access process not described.",
           "Individuals may not know how to obtain info.",
           "Add a process for access requests, ID, timeframes, charges.",
           <<"APP 12">>, "0.6"))

\* line 112 to 118
RuleApp13(d) ==
    PushIf(~(T(d, Lit("correction")) \/ T(d, Lit("correct your information"))),
        mk("privacy_app", "APP 13 correction of personal information", "undisclosed", "medium",
           "Correction process not described.",
           "Individuals may not know how to correct inaccuracies.",
           "Describe correction process, acknowledgement, timeframes.",
           <<"APP 13">>, "0.6"))

\* line 120: the retention rule fires when none of the five words occurs
RetentionFires(d) ==
    ~(T(d, Lit("retention")) \/ T(d, Lit("retain")) \/ T(d, Lit("delete"))
      \/ T(d, Lit("deletion")) \/ T(d, Lit("destroy")))

\* line 120 to 126
RuleRetention(d) ==
    PushIf(RetentionFires(d),
        mk("privacy_app", "Retention & deletion", "undisclosed", "medium",
           "No retention/deletion commitments detected.",
           "Data kept without defined periods increases exposure.",
           "State retention periods, secure destruction, triggers.",
           <<"APP 11">>, "0.6"))

\* line 129 to 138: const e8Signals
e8Signals ==
    << <<"Patch applications",
         Cat(<<AnyOf(<<"patch", "update">>), AnyStar, AnyOf(<<"application", "app">>)>>)>>,
       <<"Patch operating systems",
         Cat(<<AnyOf(<<"patch", "update">>), AnyStar, AnyOf(<<"operating system", "os">>)>>)>>,
       <<"Configure Microsoft Office macro settings", Lit("macro")>>,
       <<"User application hardening", AnyOf(<<"hardening", "blocklist", "disable">>)>>,
       <<"Restrict administrative privileges",
         Alt(<<Cat(<<Lit("admin"), Opt(Lit("istrative")), WsPlus, Lit("privilege")>>),
               Lit("least privilege"), Lit("rbac")>>)>>,
       <<"Multi-factor authentication",
         Alt(<<Cat(<<Lit("multi"), Opt(Lit("-")), Lit("factor")>>), Lit("mfa"), Lit("2fa")>>)>>,
       <<"Regular backups", Lit("backup")>>,
       <<"Incident response", AnyOf(<<"incident", "breach notification", "respond">>)>> >>

\* line 142 to 146: the finding of the control named name
E8Finding(name) ==
    mk("security_e8", "Essential Eight: " \o name, "undisclosed", "low",
       "Signal not detected in document.",
       "No mention of \"" \o name \o "\" which is recommended ACSC control.",
       "Publish statement of posture for \"" \o name \o "\".",
       <<"ACSC Essential Eight">>, "0.55")

\* line 140 and 141: which of the eight signals the text shows
E8Found(d) == [j \in 1..Len(e8Signals) |-> Test(e8Signals[j][2], d)]

RECURSIVE E8Missing(_, _)
\* line 140 to 147: one finding per signal that is not shown, in table order
E8Missing(found, j) ==
    IF j > Len(e8Signals) THEN <<>>
    ELSE PushIf(~found[j], E8Finding(e8Signals[j][1])) \o E8Missing(found, j + 1)

\* line 139 to 154
RulesE8(found) ==
    E8Missing(found, 1)
    \o PushIf(\A j \in 1..Len(e8Signals) : ~found[j],
        mk("security_e8", "Essential Eight posture", "undisclosed", "medium",
           "No ACSC Essential Eight signals detected.",
           "Security posture unclear.",
           "Publish high-level summary mapping to Essential Eight maturity.",
           <<"ACSC Essential Eight">>, "0.55"))

\* line 157 to 163
RuleNonDiagnostic(d) ==
    PushIf(~T(d, Cat(<<Lit("not"), AnyStar, Lit("diagnos")>>))
           /\ ~T(d, Lit("does not diagnos")) /\ ~T(d, Lit("not intended to diagnose")),
        mk("cdss_exemption", "Non-diagnostic disclaimer", "undisclosed", "high",
           "No explicit disclaimer found that outputs are not diagnostic.",
           "Without this, TGA may view as regulated medical device.",
           "Add disclaimer: 'This software does not provide a medical diagnosis and must not replace professional judgement.'",
           <<"TGA CDSS Exemption Guidance">>, "0.75"))

\* line 164 to 170
RuleClinician(d) ==
    PushIf(~T(d, Lit("clinician")) /\ ~T(d, Lit("health professional")) /\ ~T(d, Lit("doctor review")),
        mk("cdss_exemption", "Clinician oversight", "undisclosed", "high",
           "No mention that outputs require clinician review/approval.",
           "CDSS exemption requires clinician retains decision-making.",
           "State: 'Outputs are intended for use by qualified healthcare professionals, who retain responsibility for all decisions.'",
           <<"TGA CDSS Exemption">>, "0.75"))

\* line 171 to 177
RuleTransparency(d) ==
    PushIf(~T(d, Lit("transparent")) /\ ~T(d, Lit("rules")) /\ ~T(d, Lit("guideline"))
           /\ ~T(d, Lit("threshold")),
        mk("cdss_exemption", "Transparency of logic", "undisclosed", "medium",
           "No mention that rules/thresholds are visible.",
           "Opaque logic risks classification as regulated device.",
           "Add language that clinicians can see rules, thresholds, references.",
           <<"TGA CDSS Exemption">>, "0.65"))

\* the patient-facing rule without its condition on patient-facing language
RulePatientFacingUnconditional(d) ==
    PushIf(~T(d, Lit("educational")) /\ ~T(d, Lit("read-only")) /\ ~T(d, Lit("non-directive")),
        mk("cdss_exemption", "Patient-facing mode disclaimer", "undisclosed", "medium",
           "Mentions patient access without clarifying outputs are educational/read-only.",
           "Patient features may trigger regulation unless limited.",
           "Clarify patient mode only shows clinician-approved educational summaries.",
           <<"TGA CDSS Exemption">>, "0.6"))

\* line 178 to 184
RulePatientFacing(d) ==
    PushIf(T(d, Lit("patient")) /\ ~T(d, Lit("educational")) /\ ~T(d, Lit("read-only"))
           /\ ~T(d, Lit("non-directive")),
        mk("cdss_exemption", "Patient-facing mode disclaimer", "undisclosed", "medium",
           "Mentions patient access without clarifying outputs are educational/read-only.",
           "Patient features may trigger regulation unless limited.",
           "Clarify patient mode only shows clinician-approved educational summaries.",
           <<"TGA CDSS Exemption">>, "0.6"))

\* line 185 to 191
RuleScope(d) ==
    PushIf(~T(d, Lit("not intended")) /\ ~T(d, Lit("not for triage")) /\ ~T(d, Lit("not for emergency")),
        mk("cdss_exemption", "Scope limitations", "undisclosed", "medium",
           "No explicit limitation against triage/prediction/therapeutic claims.",
           "Absence of scope limitation could classify as device.",
           "Add: 'Not intended for triage, emergency use, disease prediction, or therapeutic purposes.'",
           <<"TGA CDSS Exemption">>, "0.6"))

\* the rules applied to the lower-cased text d, in source order
HeuristicRules(d) ==
    RuleApp1(d) \o RuleApp5(d) \o RuleApp8(d) \o RuleApp11(d) \o RuleApp12(d)
    \o RuleApp13(d) \o RuleRetention(d)
    \o RulesE8(E8Found(d))
    \o RuleNonDiagnostic(d) \o RuleClinician(d) \o RuleTransparency(d)
    \o RulePatientFacing(d) \o RuleScope(d)

\* heuristicsAU(text)
heuristicsAU(raw) == HeuristicRules(Lower(raw))

(***************************************************************************)
(* ensureMinimumAU (gap-fill).                                             *)
(***************************************************************************)
RECURSIVE ToStr(_)
\* String(v), as a template literal converts v (a number is written as its
\* JSON lexeme: integers of the usual form; fractions and exponents are not
\* renormalised)
ToStr(v) ==
    CASE TypeTag(v) = "string"    -> v[2]
      [] TypeTag(v) = "undefined" -> "undefined"
      [] TypeTag(v) = "null"      -> "null"
      [] TypeTag(v) = "number"    -> IF v[2] = "-0" THEN "0" ELSE v[2]
      [] TypeTag(v) = "boolean"   -> IF v[2] THEN "true" ELSE "false"
      [] TypeTag(v) = "array"     ->
            ConcatAll([j \in 1..Len(v[2]) |->
                (IF j = 1 THEN "" ELSE ",")
                \o (IF IsNullish(v[2][j]) THEN "" ELSE ToStr(v[2][j]))])
      [] OTHER                    -> "[object Object]"

\* findings.some(p), given the indices at which p holds and the indices of
\* the null or undefined findings, at which p raises a TypeError: the first
\* of them in list order decides
SomeOutcome(hits, nulls) ==
    IF hits # {} /\ (nulls = {} \/ Least(hits) < Least(nulls)) THEN "true"
    ELSE IF nulls # {} THEN "throw"
    ELSE "false"

NullIndices(fs) == {k \in 1..Len(fs) : IsNullish(fs[k])}

\* line 198-199: have(needle)
have(fs, needle) ==
    SomeOutcome({k \in 1..Len(fs) :
                    /\ ~IsNullish(fs[k])
                    /\ Includes(Lower(ToStr(Prop(fs[k], "theme")) \o ":"
                                      \o ToStr(Prop(fs[k], "title"))), needle)},
                NullIndices(fs))

\* line 200: findings.some(x => (x.title||"") === (f.title||"")), f.title
\* being the string title
TitleTaken(fs, title) ==
    SomeOutcome({k \in 1..Len(fs) :
                    /\ ~IsNullish(fs[k])
                    /\ OrElse(Prop(fs[k], "title"), JStr("")) = JStr(title)},
                NullIndices(fs))

\* the findings so far, or the TypeError raised on the way
Going(fs) == [threw |-> FALSE, fs |-> fs]

Thrown(fs) == [threw |-> TRUE, fs |-> fs]

\* add without the title test
addAlways(st, f) ==
    IF st.threw THEN st ELSE Going(Append(st.fs, f))

\* line 200: add(f)
add(st, f) ==
    IF st.threw THEN st
    ELSE With(TitleTaken(st.fs, f[2].title[2]), LAMBDA taken :
            IF taken = "throw" THEN Thrown(st.fs)
            ELSE IF taken = "true" THEN st
            ELSE Going(Append(st.fs, f)))

\* if (!have(needle)) add(f)
addUnlessHave(st, needle, f) ==
    IF st.threw THEN st
    ELSE With(have(st.fs, needle), LAMBDA h :
            IF h = "throw" THEN Thrown(st.fs)
            ELSE IF h = "true" THEN st
            ELSE add(st, f))

GapApp5 ==
    mk("privacy_app", "APP 5 collection notice", "undisclosed", "high", "Not found",
       "APP 5 notice may be incomplete or absent.", "Add an APP 5 notice at collection.",
       <<"APP 5">>, "0.6")

GapApp11 ==
    mk("privacy_app", "APP 11 security of personal information", "undisclosed", "high",
       "Not found", "Security controls not described.",
       "Document encryption/MFA/least-privilege/backups/patch SLAs.", <<"APP 11">>, "0.65")

GapApp12 ==
    mk("privacy_app", "APP 12 access to personal information", "undisclosed", "medium",
       "Not found", "Access process not described.",
       "Describe how individuals can request access and expected timeframes.",
       <<"APP 12">>, "0.55")

GapApp13 ==
    mk("privacy_app", "APP 13 correction of personal information", "undisclosed", "medium",
       "Not found", "Correction process not described.",
       "Explain how corrections are handled and acknowledged.", <<"APP 13">>, "0.55")

GapRetention ==
    mk("privacy_app", "Retention & deletion", "undisclosed", "medium", "Not found",
       "No retention/deletion commitments detected.",
       "State retention periods and secure deletion/de-identification triggers.",
       <<"APP 11">>, "0.55")

\* line 214: /retention|retain|delete|destroy|de-?identify/i
GapRetentionRx ==
    Alt(<<Lit("retention"), Lit("retain"), Lit("delete"), Lit("destroy"),
          Cat(<<Lit("de"), Opt(Lit("-")), Lit("identify")>>)>>)

\* line 214 to 219
addRetention(st, raw) ==
    IF ~Test(GapRetentionRx, Lower(raw)) THEN add(st, GapRetention) ELSE st

\* ensureMinimumAU(findings, text): the list it returns, or the TypeError
ensureMinimumAU(fs, raw) ==
    addRetention(
        addUnlessHave(
            addUnlessHave(
                addUnlessHave(
                    addUnlessHave(Going(fs), "app 5", GapApp5),
                    "app 11", GapApp11),
                "access to personal", GapApp12),
            "correction", GapApp13),
        raw)

(***************************************************************************)
(* dedupeRecommendations, severityRank and the remediation plan.           *)
(***************************************************************************)
\* line 334: (f.recommendation || "").slice(0, 200) keeps this many characters
KeyLen == 200

\* line 51: .slice(0, 6)
PlanCap == 6

\* line 335 to 341: the item made of finding f, key being its dedup key
PlanItem(f, key) ==
    JObj([id |-> OrElse(Prop(f, "id"), RandomId),
          title |-> OrElse(Prop(f, "title"), key),
          severity |-> OrElse(Prop(f, "severity"), JStr("medium")),
          recommendation |-> OrElse(Prop(f, "recommendation"), JStr(""))])

ItemsOk(items) == [threw |-> FALSE, items |-> items]

ItemsThrown == [threw |-> TRUE, items |-> <<>>]

\* line 334: the key of a recommendation text
DedupKey(rec) == Slice(rec, 0, KeyLen)

RECURSIVE DedupeFrom(_, _, _, _)

\* line 333 to 343: the loop from finding k on; keys are the keys of the map,
\* items its values in insertion order.  A finding that is null or
\* undefined, or whose recommendation is a value without slice, raises a
\* TypeError; a recommendation that is an array is sliced to a fresh array,
\* a key equal to no other.
DedupeFrom(fs, k, keys, items) ==
    IF k > Len(fs) THEN ItemsOk(items)
    ELSE IF IsNullish(fs[k]) THEN ItemsThrown
    ELSE With(Prop(fs[k], "recommendation"), LAMBDA rec :
            IF ~Truthy(rec) THEN DedupeFrom(fs, k + 1, keys, items)
            ELSE IF IsString(rec)
                 THEN IF DedupKey(rec[2]) \in keys
                      THEN DedupeFrom(fs, k + 1, keys, items)
                      ELSE DedupeFrom(fs, k + 1, keys \cup {DedupKey(rec[2])},
                                      Append(items, PlanItem(fs[k], JStr(DedupKey(rec[2])))))
            ELSE IF IsArray(rec)
                 THEN DedupeFrom(fs, k + 1, keys, Append(items, PlanItem(fs[k], rec)))
            ELSE ItemsThrown)

\* dedupeRecommendations(findings)
dedupeRecommendations(fs) == DedupeFrom(fs, 1, {}, <<>>)

\* the names an object literal inherits from Object.prototype that a
\* lower-cased string can equal: a lookup by them finds a function or an
\* object where a number is expected
PrototypeKeys == {"constructor", "__proto__"}

\* the model's NaN: no score, penalty or rank of the program is negative
NaN == -1

\* line 347: s?.toLowerCase() raises a TypeError for a value that is neither
\* null, undefined nor a string
severityRankThrows(s) == ~IsNullish(s) /\ ~IsString(s)

\* line 347: severityRank(s), for an s on which it does not raise.  For a
\* prototype key the lookup yields a function or an object, which ?? keeps,
\* and the comparator's difference is NaN.
severityRank(s) ==
    IF IsString(s)
    THEN CASE Lower(s[2]) = "high"         -> 0
           [] Lower(s[2]) = "medium"       -> 1
           [] Lower(s[2]) = "low"          -> 2
           [] Lower(s[2]) \in PrototypeKeys -> NaN
           [] OTHER                        -> 3
    ELSE 3

ItemRank(it) == severityRank(Prop(it, "severity"))

\* the comparator of line 50 runs on every item once there are two of them
SortThrows(items) ==
    Len(items) >= 2 /\ \E k \in 1..Len(items) : severityRankThrows(Prop(items[k], "severity"))

\* line 50: .sort((a, b) => severityRank(a.severity) - severityRank(b.severity)),
\* a stable sort: by rank, items of equal rank in their former order
SortBySeverity(items) ==
    SelectSeq(items, LAMBDA it : ItemRank(it) = 0)
    \o SelectSeq(items, LAMBDA it : ItemRank(it) = 1)
    \o SelectSeq(items, LAMBDA it : ItemRank(it) = 2)
    \o SelectSeq(items, LAMBDA it : ItemRank(it) = 3)

\* line 50: the orders the sort can leave.  A comparison that yields NaN is
\* read as "equal".  If the other items all have one rank, every pair is
\* equal and the stable sort keeps the order; if they differ, the
\* comparator is no consistent order and the order of the result is
\* implementation-defined.
SortOutcomes(items) ==
    IF \A k \in 1..Len(items) : ItemRank(items[k]) # NaN
    THEN {SortBySeverity(items)}
    ELSE IF Cardinality({ItemRank(items[k]) : k \in 1..Len(items)} \ {NaN}) <= 1
    THEN {items}
    ELSE {[k \in 1..Len(items) |-> items[p[k]]] : p \in Permutations(1..Len(items))}

\* line 51: .slice(0, 6)
TakePlan(items) == SubSeq(items, 1, Min(PlanCap, Len(items)))

(***************************************************************************)
(* detectSoftFloors and aggregate (Aggregator).                            *)
(***************************************************************************)
\* line 297: const SOFT = 20
SOFT == 20

Themes == {"privacy_app", "security_e8", "cdss_exemption", "contract_fairness", "vendor_sharing"}

\* line 280 to 282
hasPrivacySignals(d) ==
    \/ T(d, Alt(<<Cat(<<WordB, Lit("privacy policy"), WordB>>), Lit("privacy act"),
                  Lit("personal information"), Cat(<<Lit("app"), WsStar, DigitPlus>>)>>))
    \/ T(d, AnyOf(<<"we collect", "why we collect", "how to contact",
                    "access your information", "correction", "retention", "delete", "destroy">>))

\* line 284 to 285
hasSecuritySignals(d) ==
    T(d, AnyOf(<<"encryption", "mfa", "2fa", "access control", "least privilege", "backup",
                 "patch", "incident", "macro", "hardening", "rbac">>))

\* line 287 to 289
hasCdssSignals(d) ==
    \/ T(d, AnyOf(<<"not intended to diagnose", "does not diagnose", "clinician",
                    "health professional", "doctor review">>))
    \/ T(d, AnyOf(<<"educational", "read-only", "non-directive", "guideline", "threshold",
                    "transparent">>))

\* line 291 to 292
hasContractSignals(d) ==
    T(d, AnyOf(<<"limitation of liability", "liability is limited", "indemnity", "indemnify",
                 "arbitration", "governing law", "termination", "unilateral", "class action">>))

\* line 294 to 295
hasVendorSignals(d) ==
    T(d, Alt(<<Cat(<<Lit("third part"), AnyOf(<<"y", "ies">>)>>), Lit("vendors"),
               Lit("processors"), Lit("sub-processor"), Lit("share"), Lit("disclose"),
               Lit("stripe"), Lit("aws"), Lit("google"), Lit("overseas"),
               Lit("outside australia"), Lit("cross-border")>>))

\* the floors granted without looking at the text
SoftFloorsAlways(d) == [theme \in Themes |-> SOFT]

\* line 298 to 304, on the lower-cased text d
SoftFloors(d) ==
    [privacy_app       |-> IF hasPrivacySignals(d) THEN SOFT ELSE 0,
     security_e8       |-> IF hasSecuritySignals(d) THEN SOFT ELSE 0,
     cdss_exemption    |-> IF hasCdssSignals(d) THEN SOFT ELSE 0,
     contract_fairness |-> IF hasContractSignals(d) THEN SOFT ELSE 0,
     vendor_sharing    |-> IF hasVendorSignals(d) THEN SOFT ELSE 0]

\* detectSoftFloors(text)
detectSoftFloors(raw) == SoftFloors(Lower(raw))

\* line 228: const severityPenalty = { high: 20, medium: 10, low: 4 }
severityPenalty == [high |-> 20, medium |-> 10, low |-> 4]

\* config.js line 3: the weights, in hundredths
weights == [privacy_app |-> 35, security_e8 |-> 25, cdss_exemption |-> 20,
            contract_fairness |-> 10, vendor_sharing |-> 10]

\* line 244: (f.severity || "low").toLowerCase() raises a TypeError for a
\* severity that is truthy and no string; line 243 for a finding that is null
\* or undefined
AggregateThrows(fs) ==
    \E k \in 1..Len(fs) :
        \/ IsNullish(fs[k])
        \/ (Truthy(Prop(fs[k], "severity")) /\ ~IsString(Prop(fs[k], "severity")))

\* line 244 and 245: const pen = severityPenalty[sev] ?? 4.  For a prototype
\* key pen is a function or an object, the counter of line 246 becomes a
\* string, and the score of line 250 is NaN.
Penalty(f) ==
    With(Lower(OrElse(Prop(f, "severity"), JStr("low"))[2]), LAMBDA sev :
        IF sev \in DOMAIN severityPenalty THEN severityPenalty[sev]
        ELSE IF sev \in PrototypeKeys THEN NaN
        ELSE 4)

\* line 243: the property key of f.theme || "other"
ThemeKey(f) == ToStr(OrElse(Prop(f, "theme"), JStr("other")))

\* line 242 to 247 and 249: themeCounters[theme] || 0, the penalties of the
\* findings of the theme summed
ThemePenalty(fs, theme) ==
    With([k \in 1..Len(fs) |-> IF ThemeKey(fs[k]) = theme THEN Penalty(fs[k]) ELSE 0],
         LAMBDA pens :
            IF \E k \in 1..Len(fs) : pens[k] = NaN THEN NaN
            ELSE 20 * Cardinality({k \in 1..Len(fs) : pens[k] = 20})
                 + 10 * Cardinality({k \in 1..Len(fs) : pens[k] = 10})
                 + 4 * Cardinality({k \in 1..Len(fs) : pens[k] = 4}))

\* line 249 to 252: Math.max of NaN is NaN
CategoryScore(fs, floors, theme) ==
    With(ThemePenalty(fs, theme), LAMBDA penalty :
        IF penalty = NaN THEN NaN ELSE Max(Max(0, 100 - penalty), floors[theme]))

\* line 248 to 253: categoryMap
CategoryMap(fs, floors) == [theme \in Themes |-> CategoryScore(fs, floors, theme)]

\* line 255 to 261: Math.round of the weighted sum, given in hundredths.  The
\* sum is computed in floating point: where it is exactly halfway between two
\* integers the rounding error decides, and both neighbours are allowed.
OverallChoices(cat) ==
    IF \E theme \in Themes : cat[theme] = NaN THEN {NaN}
    ELSE
    With(weights.privacy_app * cat["privacy_app"] + weights.security_e8 * cat["security_e8"]
         + weights.cdss_exemption * cat["cdss_exemption"]
         + weights.contract_fairness * cat["contract_fairness"]
         + weights.vendor_sharing * cat["vendor_sharing"],
         LAMBDA h : IF h % 100 = 50 THEN {h \div 100, (h \div 100) + 1}
                    ELSE {(h + 50) \div 100})

\* line 263 to 273: the report, without its doc entry (inferTitle and
\* detectDates are not modelled) and the copy of the weights
Report(cat, overall, fs, plan) ==
    [made |-> TRUE, scores |-> [overall |-> overall] @@ cat, findings |-> fs,
     remediation_plan |-> plan]

\* aggregate(findings, remediation_plan, rawText): the reports it can return
aggregate(fs, plan, raw) ==
    With(CategoryMap(fs, detectSoftFloors(raw)), LAMBDA cat :
        {Report(cat, o, fs, plan) : o \in OverallChoices(cat)})

(***************************************************************************)
(* analyzeText after the chunk loop, line 43 to 53.                        *)
(***************************************************************************)
\* the analysis ended by a TypeError raised in function fn
Failed(fn, fs, m) == [error |-> fn, mode |-> m, findings |-> fs, reports |-> {[made |-> FALSE]}]

\* line 49 to 53 on the final findings fs
PlanAndAggregate(fs, m, raw) ==
    With(dedupeRecommendations(fs), LAMBDA dd :
        IF dd.threw THEN Failed("dedupeRecommendations", fs, m)
        ELSE IF SortThrows(dd.items) THEN Failed("severityRank", fs, m)
        ELSE IF AggregateThrows(fs) THEN Failed("aggregate", fs, m)
        ELSE [error |-> "", mode |-> m, findings |-> fs,
              reports |-> UNION {aggregate(fs, TakePlan(sorted), raw) :
                                    sorted \in SortOutcomes(dd.items)}])

\* line 43 to 53 with the gap-fill branch taken whatever the findings
AfterLoopAlwaysGapFill(fs0, raw) ==
    With(ensureMinimumAU(fs0, raw), LAMBDA st :
        IF st.threw THEN Failed("ensureMinimumAU", st.fs, "gapfill")
        ELSE PlanAndAggregate(st.fs, "gapfill", raw))

\* line 43 to 53: fs0 are the findings recovered from the model
AfterLoop(fs0, raw) ==
    IF Len(fs0) = 0
    THEN PlanAndAggregate(heuristicsAU(raw), "fallback", raw)
    ELSE With(ensureMinimumAU(fs0, raw), LAMBDA st :
            IF st.threw THEN Failed("ensureMinimumAU", st.fs, "gapfill")
            ELSE PlanAndAggregate(st.fs, "gapfill", raw))

(***************************************************************************)
(* Specification SpecChunk: chunkByChar applied to bounded inputs.         *)
(***************************************************************************)
RECURSIVE TextsOver(_)
\* every text of exactly n characters over {a, newline}
TextsOver(n) == IF n = 0 THEN {""}
                ELSE {t \o c : t \in TextsOver(n - 1), c \in {"a", "\n"}}

ChunkTexts == UNION {TextsOver(n) : n \in 0..MaxTextLen}
              \cup {Repeat("ab\n", n) : n \in 0..(MaxLines - 1)}

NoReport == [made |-> FALSE]

InitChunk ==
    /\ rawText \in ChunkTexts
    /\ size \in 1..MaxSize
    /\ overlap \in 0..(size - 1)
    /\ chunks = <<>>
    /\ pc = "chunk"
    /\ i = 0
    /\ text = JUndef
    /\ findings = <<>>
    /\ recovered = <<>>
    /\ log = <<>>
    /\ mode = ""
    /\ error = ""
    /\ report = NoReport

\* line 26: const chunks = chunkByChar(rawText, size, overlap)
DoChunk ==
    /\ pc = "chunk"
    /\ chunks' = chunkByChar(rawText, size, overlap)
    /\ pc' = "chunked"
    /\ UNCHANGED <<rawText, size, overlap, i, text, findings, recovered, log, mode, error,
                   report>>

SpecChunk == InitChunk /\ [][DoChunk]_vars

\* the number of lines of rawText
NumLines == Len(SplitLines(rawText))

\* marker n appears whole inside one of the chunks
MarkerCovered(n) == \E c \in 1..Len(chunks) : Includes(chunks[c], LineMarker(n))

\* C1 (as stated): chunkByChar returns at least one chunk and every line
\* marker [LINE n] of the indexed text appears whole inside some chunk.
C1_AllMarkersWhole ==
    pc = "chunked" =>
        /\ Len(chunks) >= 1
        /\ \A n \in 1..NumLines : MarkerCovered(n)

\* C1 (amended): chunkByChar returns at least one chunk, and every line
\* marker [LINE n] whose length is at most overlap + 1 appears whole inside
\* some chunk.
C1_MarkersWithinOverlap ==
    pc = "chunked" =>
        /\ Len(chunks) >= 1
        /\ \A n \in 1..NumLines :
              Len(LineMarker(n)) <= overlap + 1 => MarkerCovered(n)

\* C1 witness: a text of ten or more lines cut into several chunks with an
\* overlap that covers the nine-character marker of line 10.
C1_Witness ==
    /\ pc = "chunked"
    /\ NumLines >= 10
    /\ Len(chunks) >= 2
    /\ overlap + 1 >= Len(LineMarker(10))
    /\ MarkerCovered(10)

(***************************************************************************)
(* Specification SpecParse: parseGeminiJson applied to bounded response    *)
(* texts, built from fragments that make the three recoveries succeed,     *)
(* fail and shadow one another.                                            *)
(***************************************************************************)
ParseFragments == <<"[1]", "[", "]", "1", "\"", "~~~", "~~~json\n", "x ">>

RECURSIVE FragmentTexts(_)
\* every concatenation of exactly n fragments
FragmentTexts(n) ==
    IF n = 0 THEN {""}
    ELSE {t \o ParseFragments[f] : t \in FragmentTexts(n - 1), f \in 1..Len(ParseFragments)}

\* response texts of the kinds the claims name
NamedTexts ==
    { "", "The document looks fine to me.", "{\"a\":[1]}", "{}", "null", "true",
      "false", "42", "\"prose\"", "[1, 2", "{\"theme\": }",
      "~~~JSON\n[{\"title\":\"t\"}]\n~~~", "Findings: [ {\"title\":\"t\"} ] end",
      "[\"~~~[1]~~~\"]" }

ParseInputs ==
    {JUndef, JNull}
    \cup {JStr(t) : t \in NamedTexts \cup UNION {FragmentTexts(n) : n \in 0..MaxFrags}}

InitParse ==
    /\ text \in ParseInputs
    /\ pc = "parse"
    /\ rawText = ""
    /\ size = 1
    /\ overlap = 0
    /\ chunks = <<>>
    /\ i = 0
    /\ findings = <<>>
    /\ recovered = <<>>
    /\ log = <<>>
    /\ mode = ""
    /\ error = ""
    /\ report = NoReport

\* line 39: const parsed = parseGeminiJson(text)
DoParse ==
    /\ pc = "parse"
    /\ With(parseGeminiJson(text), LAMBDA r :
            /\ findings' = r.value
            /\ error' = IF r.threw THEN "parseGeminiJson" ELSE "")
    /\ pc' = "parsed"
    /\ UNCHANGED <<rawText, size, overlap, chunks, i, text, recovered, log, mode, report>>

SpecParse == InitParse /\ [][DoParse]_vars

\* the three recovery candidates of the response text and what JSON.parse
\* makes of each
WholeJson == JSONparse(text[2])

FenceJson == LET m == FenceMatch(text[2])
             IN  IF m.found THEN JSONparse(m.body) ELSE NoParse

BracketJson == LET m == ArrayLikeMatch(text[2])
               IN  IF m.found THEN JSONparse(m.body) ELSE NoParse

YieldsArray(j) == j.ok /\ IsArray(j.val)

\* the array j holds, the empty sequence when j is not an array
ArrayOrEmpty(j) == IF IsArray(j.val) THEN j.val[2] ELSE <<>>

IsSequence(v) == DOMAIN v = 1..Len(v)

NoBrackets(s) == ~Includes(s, "[") /\ ~Includes(s, "]")

C10_FirstArrayWins ==
    (pc = "parsed" /\ IsString(text)) =>
        findings = IF YieldsArray(WholeJson) THEN WholeJson.val[2]
                   ELSE IF YieldsArray(FenceJson) THEN FenceJson.val[2]
                   ELSE IF YieldsArray(BracketJson) THEN BracketJson.val[2]
                   ELSE <<>>

\* C10 (amended): the result is decided by the first of (1) entire text,
\* (2) first fenced block, (3) outermost bracketed substring that parses as
\* JSON at all: its array when it is an array, the empty sequence when it is
\* any other JSON value; a later recovery is tried only when every earlier
\* one failed to parse, and the result is empty when none parses.
C10_FirstParseDecides ==
    (pc = "parsed" /\ IsString(text)) =>
        findings = IF WholeJson.ok THEN ArrayOrEmpty(WholeJson)
                   ELSE IF FenceJson.ok THEN ArrayOrEmpty(FenceJson)
                   ELSE IF BracketJson.ok THEN ArrayOrEmpty(BracketJson)
                   ELSE <<>>

\* C10 witness: the entire text and the fenced block both failed to parse and
\* the bracketed substring gave the returned, non-empty array.
C10_Witness ==
    /\ pc = "parsed"
    /\ IsString(text)
    /\ ~WholeJson.ok
    /\ FenceMatch(text[2]).found /\ ~FenceJson.ok
    /\ YieldsArray(BracketJson)
    /\ findings = BracketJson.val[2]
    /\ findings # <<>>

(***************************************************************************)
(* Specification Spec: analyzeText, line 23 to 54.  The Model Gateway      *)
(* (generateWithGemini) is outside the program: its response to a call is  *)
(* any of Responses, or a rejection.                                       *)
(***************************************************************************)
\* config.js: maxTokensPerChunk
maxTokensPerChunk == 6000

\* config.js: overlapChars
overlapChars == 800

ScenarioDoc ==
    "We collect your name and email for account creation. Contact privacy@example.com for access requests."

\* a document in which every signal of the rule engine occurs
CompliantDoc ==
    "Privacy Policy. We collect names. Why we collect: billing. How to contact us: mail. "
    \o "No overseas disclosure. Security: encryption. You may request access. "
    \o "Correction on request. We retain data for 7 years. We patch every application and OS. "
    \o "Macro. Hardening. RBAC. MFA. Backup. Incident. It does not diagnose. Clinician. "
    \o "Guideline. Not intended for triage."

DeletionDoc == "Deletion on request within 30 days."

DeidentifyDoc == "We de-identify records after two years."

PatientDoc == "The patient portal shows results."

NoticeDoc == "We collect data. Why we collect it. How to contact us."

\* a short text followed by blank lines: its indexed form, a marker per
\* line, is longer than one chunk
BlankLinesDoc == "We retain data for seven years." \o Repeat("\n", 520)

Documents ==
    {"", ScenarioDoc, CompliantDoc, DeletionDoc, DeidentifyDoc, PatientDoc, NoticeDoc,
     BlankLinesDoc}

\* one finding inside a fenced block, after prose
FencedResponse ==
    "Here are the findings:\n~~~json\n[{\"id\":\"F-1\",\"theme\":\"vendor_sharing\","
    \o "\"title\":\"Sub-processors\",\"status\":\"undisclosed\",\"severity\":\"High\","
    \o "\"recommendation\":\"List the sub-processors.\"}]\n~~~"

\* recommendations longer than the key: the first two agree on their first
\* 200 characters, the fifth differs from them at the 200th; severities and
\* themes missing, unknown and in capitals; a finding without recommendation
DuplicatesResponse ==
    "[{\"theme\":\"privacy_app\",\"title\":\"First\",\"severity\":\"low\",\"recommendation\":\""
    \o Repeat("r", 200) \o " first\"},"
    \o "{\"theme\":\"security_e8\",\"title\":\"Second\",\"severity\":\"high\",\"recommendation\":\""
    \o Repeat("r", 200) \o " second\"},"
    \o "{\"title\":\"Third\",\"recommendation\":\"c\"},"
    \o "{\"theme\":\"legal\",\"title\":\"Fourth\",\"severity\":\"urgent\",\"recommendation\":\"d\"},"
    \o "{\"theme\":\"privacy_app\",\"title\":\"Fifth\",\"severity\":\"MEDIUM\",\"recommendation\":\""
    \o Repeat("r", 199) \o "x\"},"
    \o "{\"theme\":\"cdss_exemption\",\"title\":\"Sixth\",\"severity\":\"high\"}]"

NumericSeverityResponse ==
    "[{\"theme\":\"privacy_app\",\"title\":\"t\",\"severity\":3,\"recommendation\":\"x\"}]"

\* the titles hold every needle of ensureMinimumAU
PrototypeSeverityResponse ==
    "[{\"theme\":\"privacy_app\",\"title\":\"APP 5, APP 11, access to personal data, correction\","
    \o "\"severity\":\"constructor\",\"recommendation\":\"a\"},"
    \o "{\"theme\":\"security_e8\",\"title\":\"u\",\"severity\":\"high\",\"recommendation\":\"b\"}]"

\* a needle in the theme, and the title of the retention finding
CoveredResponse ==
    "[{\"theme\":\"App 5\",\"title\":\"Notice\",\"severity\":\"low\",\"recommendation\":\"n\"},"
    \o "{\"theme\":\"privacy_app\",\"title\":\"Retention & deletion\",\"severity\":\"low\","
    \o "\"recommendation\":\"k\"}]"

NumericRecommendationResponse ==
    "[{\"theme\":\"privacy_app\",\"title\":\"t\",\"severity\":\"low\",\"recommendation\":5}]"

\* what a Model Gateway call can resolve to as text
Responses ==
    {JUndef, JStr(""), JStr("No findings."), JStr("[]"), JStr("[null]"),
     JStr(FencedResponse), JStr(DuplicatesResponse), JStr(NumericSeverityResponse),
     JStr(PrototypeSeverityResponse), JStr(CoveredResponse),
     JStr(NumericRecommendationResponse)}

Init ==
    /\ rawText \in Documents
    /\ size = maxTokensPerChunk
    /\ overlap = overlapChars
    /\ chunks = <<>>
    /\ pc = "start"
    /\ i = 0
    /\ text = JUndef
    /\ findings = <<>>
    /\ recovered = <<>>
    /\ log = <<>>
    /\ mode = ""
    /\ error = ""
    /\ report = NoReport

\* line 24 to 28
StartAnalysis ==
    /\ pc = "start"
    /\ chunks' = chunkByChar(rawText, size, overlap)
    /\ i' = 0
    /\ findings' = <<>>
    /\ pc' = "loop"
    /\ UNCHANGED <<rawText, size, overlap, text, recovered, log, mode, error, report>>

\* line 29 to 38: the loop test holds and the call for chunk i is issued
IssueCall ==
    /\ pc = "loop"
    /\ i < Len(chunks)
    /\ pc' = "await"
    /\ log' = Append(log, <<"call", i>>)
    /\ UNCHANGED <<rawText, size, overlap, chunks, i, text, findings, recovered, mode, error,
                   report>>

\* line 38: the awaited call resolves
GatewayReturn ==
    /\ pc = "await"
    /\ text' \in Responses
    /\ pc' = "recover"
    /\ log' = Append(log, <<"return", i>>)
    /\ UNCHANGED <<rawText, size, overlap, chunks, i, findings, recovered, mode, error,
                   report>>

\* line 38: the awaited call rejects, and analyzeText with it
GatewayFail ==
    /\ pc = "await"
    /\ error' = "generateWithGemini"
    /\ pc' = "failed"
    /\ log' = Append(log, <<"reject", i>>)
    /\ UNCHANGED <<rawText, size, overlap, chunks, i, text, findings, recovered, mode, report>>

\* the recovered findings put in front of the accumulated ones
AccumulateInFront(fs, parsed) == parsed \o fs

\* line 40: findings.push(...parsed)
Accumulate(fs, parsed) == fs \o parsed

\* line 39 to 40 and the i++ of line 29; parseGeminiJson returns an array
\* whenever it returns, so the test of line 40 holds
Recover ==
    /\ pc = "recover"
    /\ With(parseGeminiJson(text), LAMBDA parsed :
            /\ findings' = IF parsed.threw THEN findings ELSE Accumulate(findings, parsed.value)
            /\ recovered' = findings'
            /\ log' = IF parsed.threw THEN log ELSE Append(log, <<"append", i, parsed.value>>)
            /\ error' = IF parsed.threw THEN "parseGeminiJson" ELSE error
            /\ pc' = IF parsed.threw THEN "failed" ELSE "loop")
    /\ i' = i + 1
    /\ UNCHANGED <<rawText, size, overlap, chunks, text, mode, report>>

\* line 43 to 53: the loop test fails
Finish ==
    /\ pc = "loop"
    /\ i >= Len(chunks)
    /\ With(AfterLoop(findings, rawText), LAMBDA r :
            /\ findings' = r.findings
            /\ mode' = r.mode
            /\ error' = r.error
            /\ pc' = IF r.error = "" THEN "done" ELSE "failed"
            /\ report' \in r.reports)
    /\ UNCHANGED <<rawText, size, overlap, chunks, i, text, recovered, log>>

Next ==
    \/ StartAnalysis
    \/ IssueCall
    \/ GatewayReturn
    \/ GatewayFail
    \/ Recover
    \/ Finish

Spec == Init /\ [][Next]_vars

(***************************************************************************)
(* Vocabulary of the properties of Spec.  These operators restate what     *)
(* the specification text says, independently of the operators above.      *)
(***************************************************************************)
\* analyzeText returned a report
Done == pc = "done"

\* the chunk loop ran to its end (whatever happened after it)
LoopEnded == pc \in {"done", "failed"} /\ error \notin {"generateWithGemini", "parseGeminiJson"}

TitleOf(f) == Prop(f, "title")

HasTitle(fs, title) == \E k \in 1..Len(fs) : TitleOf(fs[k]) = JStr(title)

\* a finding of that title with status "undisclosed"
Undisclosed(fs, title) ==
    \E k \in 1..Len(fs) :
        TitleOf(fs[k]) = JStr(title) /\ Prop(fs[k], "status") = JStr("undisclosed")

\* the first 200 characters of a text
First200(s) == SubSeq(s, 1, IF Len(s) < 200 THEN Len(s) ELSE 200)

RecommendationOf(f) == Prop(f, "recommendation")

\* the rank the specification gives a severity
SpecRank(sev) ==
    IF TypeTag(sev) # "string" THEN 3
    ELSE CASE Lower(sev[2]) = "high"   -> 0
           [] Lower(sev[2]) = "medium" -> 1
           [] Lower(sev[2]) = "low"    -> 2
           [] OTHER                    -> 3

\* the penalty the specification gives a finding
SpecPenalty(f) ==
    IF TypeTag(Prop(f, "severity")) # "string" THEN 4
    ELSE CASE Lower(Prop(f, "severity")[2]) = "high"   -> 20
           [] Lower(Prop(f, "severity")[2]) = "medium" -> 10
           [] OTHER                                    -> 4

RECURSIVE SpecPenaltySum(_, _, _)
\* the penalties of the findings of fs from index k on that carry the theme
SpecPenaltySum(fs, theme, k) ==
    IF k > Len(fs) THEN 0
    ELSE (IF Prop(fs[k], "theme") = JStr(theme) THEN SpecPenalty(fs[k]) ELSE 0)
         + SpecPenaltySum(fs, theme, k + 1)

\* finding k of fs is the first of fs with its recommendation key
FirstOfKey(fs, k) ==
    /\ TypeTag(RecommendationOf(fs[k])) = "string"
    /\ \A m \in 1..(k - 1) :
          TypeTag(RecommendationOf(fs[m])) = "string"
          => First200(RecommendationOf(fs[m])[2]) # First200(RecommendationOf(fs[k])[2])

\* C3: the remediation plan of a report has at most 6 items, in
\* non-decreasing severity rank (high=0, medium=1, low=2, anything else=3),
\* no two of them with recommendation texts that agree on their first 200
\* characters, and each item comes from the first finding with its key.
C3_PlanCappedSortedDeduped ==
    Done =>
        /\ Len(report.remediation_plan) <= 6
        /\ \A a, b \in 1..Len(report.remediation_plan) :
              a < b => SpecRank(Prop(report.remediation_plan[a], "severity"))
                       <= SpecRank(Prop(report.remediation_plan[b], "severity"))
        /\ \A a, b \in 1..Len(report.remediation_plan) :
              a # b => First200(RecommendationOf(report.remediation_plan[a])[2])
                       # First200(RecommendationOf(report.remediation_plan[b])[2])
        /\ \A a \in 1..Len(report.remediation_plan) :
              \E k \in 1..Len(report.findings) :
                 /\ FirstOfKey(report.findings, k)
                 /\ RecommendationOf(report.findings[k])
                    = RecommendationOf(report.remediation_plan[a])
                 /\ Truthy(TitleOf(report.findings[k]))
                    => TitleOf(report.findings[k]) = TitleOf(report.remediation_plan[a])

\* C4: aggregation (dedup, ranking, scoring) never fails, whatever the
\* severities and themes of the findings, and a finding with a missing or
\* unknown severity costs its theme 4 points.
C4_AggregationNeverFails ==
    /\ ~(pc = "failed" /\ error \in {"dedupeRecommendations", "severityRank", "aggregate"})
    /\ Done =>
          \A theme \in Themes :
             report.scores[theme]
             = Max(Max(0, 100 - SpecPenaltySum(report.findings, theme, 1)),
                   detectSoftFloors(rawText)[theme])

\* C5: for the scenario document the rule engine emits no finding titled
\* "APP 5 collection notice".
C5_NoCollectionNoticeFinding ==
    (rawText = ScenarioDoc /\ mode = "fallback" /\ LoopEnded)
    => ~HasTitle(findings, "APP 5 collection notice")

\* the rule engine ran on the scenario document and a report was returned
ScenarioRan == rawText = ScenarioDoc /\ mode = "fallback" /\ Done

UnconditionalRuleTitles ==
    {"APP 8 cross-border disclosures", "APP 11 security of personal information",
     "Retention & deletion", "Non-diagnostic disclaimer", "Clinician oversight",
     "Transparency of logic", "Scope limitations"}

\* C6 as stated: for the scenario document the engine emits an undisclosed
\* finding for cross-border disclosure, security, retention and all five
\* exemption rules, the patient-facing one included, and the privacy score
\* is below 100.
C6_ScenarioAllExemptionRules ==
    ScenarioRan =>
        /\ \A title \in UnconditionalRuleTitles \cup {"Patient-facing mode disclaimer"} :
              Undisclosed(report.findings, title)
        /\ report.scores.privacy_app < 100

\* C6 amended: for the scenario document the engine emits an undisclosed
\* finding for cross-border disclosure, security, retention and the four
\* unconditional exemption rules, none for the patient-facing rule (the
\* document has no patient-facing language), and the privacy score is below
\* 100.
C6_ScenarioUnconditionalRules ==
    ScenarioRan =>
        /\ \A title \in UnconditionalRuleTitles : Undisclosed(report.findings, title)
        /\ ~HasTitle(report.findings, "Patient-facing mode disclaimer")
        /\ \A k \in 1..Len(report.findings) :
              Prop(report.findings[k], "status") = JStr("undisclosed")
        /\ report.scores.privacy_app < 100

C6_Witness == ScenarioRan /\ report.scores.privacy_app = 20

\* a report was returned for the empty document
EmptyRan == rawText = "" /\ Done

\* the five floors are 0 and every category score is 100 less the penalties
\* of the findings of its theme
EmptyDocScores ==
    \A theme \in Themes :
        /\ detectSoftFloors(rawText)[theme] = 0
        /\ report.scores[theme] = 100 - SpecPenaltySum(report.findings, theme, 1)

\* C7 as stated: for the empty document no findings come from the model, the
\* full fallback runs, the floors are 0 and the category scores are 100
\* less the penalties of the heuristic findings.
C7_EmptyDocFallback ==
    EmptyRan => (recovered = <<>> /\ mode = "fallback" /\ EmptyDocScores)

\* C7 amended: for the empty document the fallback runs exactly when the
\* response to its single chunk "[LINE 1] " was recovered to no finding
\* (else gap-fill runs); the floors are 0; and after the fallback the
\* category scores are 100 less the penalties of the heuristic findings.
C7_EmptyDocFallbackIfNoneRecovered ==
    /\ (rawText = "" /\ pc # "start") => chunks = <<"[LINE 1] ">>
    /\ (rawText = "" /\ LoopEnded) =>
          /\ mode = "fallback" <=> recovered = <<>>
          /\ mode = "gapfill" <=> recovered # <<>>
          /\ \A theme \in Themes : detectSoftFloors(rawText)[theme] = 0
    /\ (EmptyRan /\ mode = "fallback") =>
          /\ EmptyDocScores
          /\ report.scores.privacy_app = 10
          /\ report.scores.security_e8 = 58
          /\ report.scores.cdss_exemption = 40

C7_Witness == EmptyRan /\ mode = "fallback" /\ Len(report.findings) = 20

\* ensureMinimumAU returned
GapFilled == mode = "gapfill" /\ LoopEnded /\ error # "ensureMinimumAU"

\* the findings after the recovered ones
Added == SubSeq(findings, Len(recovered) + 1, Len(findings))

\* what the mandatory-coverage rules of the engine emit on the document
MandatoryRuleFindings(d) ==
    RuleApp5(d) \o RuleApp11(d) \o RuleApp12(d) \o RuleApp13(d) \o RuleRetention(d)

Titles(fs) == [k \in 1..Len(fs) |-> TitleOf(fs[k])]

NeedleCovered(fs, needle) ==
    \E k \in 1..Len(fs) :
        Includes(Lower(ToStr(Prop(fs[k], "theme")) \o ":" \o ToStr(TitleOf(fs[k]))), needle)

\* the five fixed gap findings with the needle of each ("" for retention)
GapTable ==
    << <<GapApp5, "app 5">>, <<GapApp11, "app 11">>, <<GapApp12, "access to personal">>,
       <<GapApp13, "correction">>, <<GapRetention, "">> >>

RetentionWords == {"retention", "retain", "delete", "destroy", "deidentify", "de-identify"}

\* gap-fill adds entry e of GapTable to the recovered findings fs
GapWanted(e, fs, raw) ==
    /\ ~HasTitle(fs, TitleOf(e[1])[2])
    /\ IF e[2] = "" THEN \A w \in RetentionWords : ~Includes(Lower(raw), w)
       ELSE ~NeedleCovered(fs, e[2])

C9_FallbackNonEmptyThemed ==
    LoopEnded =>
        /\ recovered = <<>> =>
              /\ mode = "fallback"
              /\ findings = heuristicsAU(rawText)
              /\ Done => report.findings = findings
              /\ Len(rawText) >= 20 =>
                    /\ findings # <<>>
                    /\ \A k \in 1..Len(findings) :
                          \E theme \in Themes : Prop(findings[k], "theme") = JStr(theme)
        /\ recovered # <<>> => mode = "gapfill"

\* the three phrases of the collection notice and a word of each other
\* privacy topic occur in the lower-cased text d
PrivacySignalsPresent(d) ==
    /\ \A w \in {"privacy policy", "we collect", "why we collect", "how to contact",
                 "security", "correct"} : Includes(d, w)
    /\ \E w \in {"overseas", "outside australia", "cross-border"} : Includes(d, w)
    /\ \E w \in {"access your information", "request access"} : Includes(d, w)
    /\ \E w \in {"retention", "retain", "delete", "deletion", "destroy"} : Includes(d, w)

\* C9 amended: with nothing recovered the full engine runs, never gap-fill,
\* and the report carries exactly its output, every finding with one of the
\* five themes; the output is empty only for a document that shows the
\* signal of every rule (and is empty for such a document); with something
\* recovered gap-fill runs.
C9_FallbackIffNoneRecovered ==
    LoopEnded =>
        /\ recovered = <<>> =>
              /\ mode = "fallback"
              /\ findings = heuristicsAU(rawText)
              /\ Done => report.findings = findings
              /\ \A k \in 1..Len(findings) :
                    \E theme \in Themes : Prop(findings[k], "theme") = JStr(theme)
              /\ findings = <<>> => PrivacySignalsPresent(Lower(rawText))
              /\ rawText = CompliantDoc => findings = <<>>
        /\ recovered # <<>> => mode = "gapfill"

\* the fallback ran on a document of 20 characters or more and found nothing
C9_Witness ==
    /\ Done
    /\ recovered = <<>>
    /\ mode = "fallback"
    /\ Len(rawText) >= 20
    /\ report.findings = <<>>

\* the floor the specification gives a theme: 20 if the document shows a
\* positive signal of the theme, else 0
SpecFloor(theme, d) ==
    IF CASE theme = "privacy_app"       -> hasPrivacySignals(d)
         [] theme = "security_e8"       -> hasSecuritySignals(d)
         [] theme = "cdss_exemption"    -> hasCdssSignals(d)
         [] theme = "contract_fairness" -> hasContractSignals(d)
         [] OTHER                       -> hasVendorSignals(d)
    THEN 20 ELSE 0

\* the findings of fs that carry one of the five themes
FiveThemesOnly(fs) ==
    SelectSeq(fs, LAMBDA f : \E theme \in Themes : Prop(f, "theme") = JStr(theme))

\* C11: every category score of a report is max(max(0, 100 - P), F), P the
\* penalties (high=20, medium=10, low=4, unknown=4) of the findings of the
\* theme and F its floor (20 if the document shows a signal of the theme,
\* else 0); so it is an integer from 0 to 100, at least 20 where the signal
\* is present, and findings of other themes change no score.
C11_CategoryScoreFormula ==
    Done =>
        \A theme \in Themes :
            /\ report.scores[theme]
               = Max(Max(0, 100 - SpecPenaltySum(FiveThemesOnly(report.findings), theme, 1)),
                     SpecFloor(theme, Lower(rawText)))
            /\ report.scores[theme] \in 0..100
            /\ SpecFloor(theme, Lower(rawText)) = 20 => report.scores[theme] >= 20

\* the positions of log that hold an event of one of the kinds
EventsAt(kinds) == {p \in 1..Len(log) : log[p][1] \in kinds}

RECURSIVE AppendedFrom(_)
\* the findings of the append events of log from position p on, concatenated
AppendedFrom(p) ==
    IF p > Len(log) THEN <<>>
    ELSE (IF log[p][1] = "append" THEN log[p][3] ELSE <<>>) \o AppendedFrom(p + 1)

\* C12: the gateway calls are issued in chunk order with at most one
\* outstanding: the call for a chunk is issued only after the call for every
\* earlier chunk has returned and its response has been recovered and
\* appended; the accumulated findings are the per-chunk recovered findings
\* concatenated in increasing chunk index.
C12_CallsInChunkOrder ==
    /\ Cardinality(EventsAt({"call"})) - Cardinality(EventsAt({"return", "reject"})) \in {0, 1}
    /\ \A p \in EventsAt({"call"}) :
          /\ log[p][2] = Cardinality({q \in EventsAt({"call"}) : q < p})
          /\ log[p][2] < Len(chunks)
          /\ \A j \in 0..(log[p][2] - 1) :
                \E q, r \in 1..(p - 1) :
                   /\ q < r
                   /\ log[q] = <<"return", j>>
                   /\ log[r][1] = "append" /\ log[r][2] = j
    /\ \A p \in EventsAt({"append"}) :
          /\ log[p][2] = Cardinality({q \in EventsAt({"append"}) : q < p})
          /\ p > 1 /\ log[p - 1] = <<"return", log[p][2]>>
    /\ recovered = AppendedFrom(1)
    /\ pc \in {"loop", "await", "recover"} => findings = recovered

\* two chunks were processed, each with findings of its own, and a report
\* was returned
C12_Witness ==
    /\ Done
    /\ Len(chunks) = 2
    /\ \E p, q \in EventsAt({"append"}) :
          /\ p < q
          /\ log[p][3] # <<>>
          /\ log[q][3] # <<>>
          /\ log[p][3] # log[q][3]

====
